---- MODULE Spec2Model ----
(***************************************************************************)
(* The turfup backend: the fastify handlers of src/backend.js (repeated,   *)
(* with the auth endpoints, in src/unnamed/part_000) over the PostgreSQL   *)
(* schema of src/DEPLOYMENT_GUIDE.md.                                      *)
(*                                                                         *)
(* Every pool.query is one statement executed atomically by the store      *)
(* (autocommit).  A handler's code between two awaits runs to completion,  *)
(* so one action is one store call together with the handler code that     *)
(* follows it up to the next store call or to the response.  A request     *)
(* that waits between two store calls is an element of inflight.           *)
(***************************************************************************)
EXTENDS Integers, Sequences, FiniteSets, Bags, TLC

VARIABLES
    matches,      \* rows of table matches
    players,      \* rows of table players, listed by (match_id, joined_at)
    nextMatchId,  \* the sequence behind matches.id SERIAL
    inflight,     \* bag of requests waiting between two store calls
    reply,        \* the response sent by the last step (NoReply: none sent)
    serial,       \* TRUE: requests are executed one at a time
    left,         \* serial runs only: <<matchId, name>> of the Leave that
                  \* succeeded just before the request now in progress
    users,        \* rows of table users, by id
    nextUserId,   \* the sequence behind users.id
    uniqueUsernames, \* whether table users has a unique constraint on username
    sessions,     \* the Map sessions: the set of its <<token, userId>> entries
    nextToken,    \* the tokens generateToken has returned so far, plus one
    authflight,   \* bag of auth requests waiting on an await
    traffic,      \* the endpoints the clients of this run call
    arrivals,     \* the requests still to arrive (Unbounded: any number)
    audit         \* TRUE: the requests of this run keep the rowCount of their
                  \* statements (a history no handler reads)

vars == <<matches, players, nextMatchId, inflight, reply, serial, left,
          users, nextUserId, uniqueUsernames, sessions, nextToken, authflight,
          traffic, arrivals, audit>>

store == <<matches, players, nextMatchId>>

userStore == <<users, nextUserId, uniqueUsernames>>

auth == <<userStore, sessions, nextToken, authflight>>

mode == <<serial, traffic, audit>>

----------------------------------------------------------------------------
(* Bounds of the model *)

MaxMatches == 2

MaxInFlight == 2

(* Request inputs *)

Names == {"A", "B"}

\* an absent or empty body field: falsy in JavaScript
Missing == ""

NameInputs == Names \cup {Missing}

ContactInputs == {"c", Missing}

DigitChars == <<"0", "1", "2", "3", "4", "5", "6", "7", "8", "9">>

IsDigit(c) == \E d \in 1..Len(DigitChars) : DigitChars[d] = c

DigitVal(c) == (CHOOSE d \in 1..Len(DigitChars) : DigitChars[d] = c) - 1

\* the :id path parameter as the client sends it: a string of characters
IdParams ==
    {<<DigitChars[i + 1]>> : i \in 1..MaxMatches} \cup {<<"x">>, <<"1", "x">>}

\* playersNeeded of a POST /matches body (0 also stands for an absent field)
NeededInputs == {-1, 0, 1, 2, 21}

MaxUsers == 2

MaxTokens == 3

MaxArrivals == 4

UsernameInputs == {"u", "v", Missing}

PasswordInputs == {"p", "q", Missing}

\* no Authorization header: falsy
NoToken == 0

\* the tokens a client may present: the issued ones and one never issued
TokenInputs == NoToken..(MaxTokens + 1)

----------------------------------------------------------------------------
(* parseInt(request.params.id) *)

NaN == -1

RECURSIVE DigitPrefix(_, _)
DigitPrefix(s, acc) ==
    IF s = <<>> \/ ~IsDigit(Head(s))
    THEN acc
    ELSE DigitPrefix(Tail(s), 10 * acc + DigitVal(Head(s)))

\* the longest prefix of decimal digits, NaN when the string has none
parseInt(s) ==
    IF s = <<>> \/ ~IsDigit(Head(s)) THEN NaN ELSE DigitPrefix(s, 0)

----------------------------------------------------------------------------
(* The store: schema and statements *)

MaxPlayersNeeded == 20

NoCheck(n) == TRUE

\* CHECK (players_needed > 0 AND players_needed <= 20)
PlayersNeededCheck(n) == n > 0 /\ n <= MaxPlayersNeeded

\* a NaN parameter is sent as the text 'NaN', which is no integer: the
\* statement fails
BadParam(id) == id = NaN

MatchIds == {m.id : m \in matches}

MatchRows(id) == {m \in matches : m.id = id}

PlayersOf(id) == SelectSeq(players, LAMBDA p : p.match_id = id)

PlayerRows(id, name) ==
    SelectSeq(players, LAMBDA p : p.match_id = id /\ p.name = name)

NoUniqueIndex(ps, row) == TRUE

\* CREATE UNIQUE INDEX idx_unique_player_per_match ON players(match_id, name)
UniqueIndexHolds(ps, row) ==
    \A i \in 1..Len(ps) :
        ~(ps[i].match_id = row.match_id /\ ps[i].name = row.name)

\* match_id INTEGER NOT NULL REFERENCES matches(id)
ForeignKeyHolds(ms, row) == \E m \in ms : m.id = row.match_id

\* INSERT INTO players succeeds
InsertPlayerOk(row) ==
    /\ ~BadParam(row.match_id)
    /\ ForeignKeyHolds(matches, row)
    /\ UniqueIndexHolds(players, row)

OnlyNewRow(ps, row) == <<row>>

\* INSERT INTO players: the table with the new row, the last of its match
InsertRow(ps, row) ==
    SelectSeq(ps, LAMBDA p : p.match_id <= row.match_id)
        \o <<row>> \o SelectSeq(ps, LAMBDA p : p.match_id > row.match_id)

WithoutPlayers(ps, id) == SelectSeq(ps, LAMBDA p : p.match_id # id)

NoCascade(ps, id) == ps

\* REFERENCES matches(id) ON DELETE CASCADE: the players left once match
\* id is deleted
Cascade(ps, id) == WithoutPlayers(ps, id)

\* json_build_object(name, contact, joinedAt) of each row, ORDER BY
\* p.joined_at
RECURSIVE PlayerObjects(_)
PlayerObjects(ps) ==
    IF ps = <<>>
    THEN <<>>
    ELSE <<[name |-> Head(ps).name, contact |-> Head(ps).contact]>>
             \o PlayerObjects(Tail(ps))

\* SQL NULL as the value of column players, apart from every array of
\* player objects
JsonNull == <<[name |-> "NULL", contact |-> "NULL"]>>

\* json_agg(...) FILTER (WHERE p.id IS NOT NULL): NULL when the LEFT JOIN
\* found no player
JsonAgg(ps) == IF ps = <<>> THEN JsonNull ELSE PlayerObjects(ps)

NoCoalesce(value, default) == value

\* COALESCE(value, '[]')
Coalesce(value, default) == IF value = JsonNull THEN default ELSE value

\* one row of the aggregate query: m.*, creator, players
Aggregate(m) ==
    [id |-> m.id, players_needed |-> m.players_needed,
     players |-> Coalesce(JsonAgg(PlayersOf(m.id)), <<>>)]

\* ... WHERE m.id = $1 GROUP BY m.id
AggregateRows(id) ==
    IF id \in MatchIds
    THEN <<Aggregate(CHOOSE m \in matches : m.id = id)>>
    ELSE <<>>

RECURSIVE OldestFirst(_)
OldestFirst(id) ==
    IF id < 1
    THEN <<>>
    ELSE OldestFirst(id - 1) \o AggregateRows(id)

\* ... GROUP BY m.id ORDER BY m.created_at DESC (created_at grows with id)
RECURSIVE AggregatesFrom(_)
AggregatesFrom(id) ==
    IF id < 1
    THEN <<>>
    ELSE AggregateRows(id) \o AggregatesFrom(id - 1)

----------------------------------------------------------------------------
(* Responses *)

\* op: the handler that answers; code: the HTTP status; kind: what the payload is ("error": {error}, "message": {message},
\* "match": one aggregate, "list": an array of aggregates, "undefined": the
\* handler returned undefined); body: the aggregates of the payload
NoReply == [op |-> "none", code |-> 0, kind |-> "none", error |-> "", body |-> <<>>]

Response(op, code, kind, body) ==
    [op |-> op, code |-> code, kind |-> kind, error |-> "", body |-> body]

\* reply.code(code); return { error }
Failure(op, code, error) ==
    [op |-> op, code |-> code, kind |-> "error", error |-> error, body |-> <<>>]

NoLeave == <<>>

\* the step answers the request
Send(rep) == reply' = rep /\ left' = NoLeave

\* the step answers nothing: the request goes on to its next store call
Silent == reply' = NoReply

\* rowCount: in an audited run, the number of rows the statements the
\* request has executed have inserted or deleted
Request(op, pc, id, name, contact) ==
    [op |-> op, pc |-> pc, matchId |-> id, name |-> name, contact |-> contact,
     rowCount |-> 0]

\* result.rowCount of a statement
Counted(n) == IF audit THEN n ELSE 0

Waiting == BagToSet(inflight)

Unbounded == -1

\* a request arrives; in a serial run only when no other is in progress
Arrives ==
    /\ serial => inflight = EmptyBag /\ authflight = EmptyBag
    /\ arrivals # 0
    /\ arrivals' = IF arrivals = Unbounded THEN arrivals ELSE arrivals - 1

\* the handler awaits its next store call
Await(q) ==
    /\ BagCardinality(inflight) < MaxInFlight
    /\ inflight' = inflight (+) SetToBag({q})

LastCallRetried(q) ==
    IF q.pc \in {"updated", "match"} THEN inflight
                                     ELSE inflight (-) SetToBag({q})

\* the store call request q waited for is executed
Resumed(q) == inflight (-) SetToBag({q})

----------------------------------------------------------------------------
\* no user, no session
AuthStart ==
    /\ users = <<>>
    /\ nextUserId = 1
    /\ sessions = {}
    /\ nextToken = 1
    /\ authflight = EmptyBag

Init ==
    /\ matches = {}
    /\ players = <<>>
    /\ nextMatchId = 1
    /\ inflight = EmptyBag
    /\ reply = NoReply
    /\ serial = FALSE
    /\ left = NoLeave
    /\ AuthStart
    /\ uniqueUsernames = TRUE
    /\ traffic = "matches"
    /\ arrivals = Unbounded
    /\ audit = FALSE

SerialInit ==
    /\ matches = {}
    /\ players = <<>>
    /\ nextMatchId = 1
    /\ inflight = EmptyBag
    /\ reply = NoReply
    /\ serial = TRUE
    /\ left = NoLeave
    /\ AuthStart
    /\ uniqueUsernames = TRUE
    /\ traffic = "matches"
    /\ arrivals = Unbounded
    /\ audit = FALSE

\* the auth endpoints, whatever the schema of table users says of username
AuthInit ==
    /\ matches = {}
    /\ players = <<>>
    /\ nextMatchId = 1
    /\ inflight = EmptyBag
    /\ reply = NoReply
    /\ serial = FALSE
    /\ left = NoLeave
    /\ AuthStart
    /\ uniqueUsernames \in BOOLEAN
    /\ traffic = "auth"
    /\ arrivals = Unbounded
    /\ audit = FALSE

----------------------------------------------------------------------------
(* GET /matches *)

ListMatches ==
    /\ Arrives
    /\ Send(Response("list", 200, "list",
                     AggregatesFrom(nextMatchId - 1)))
    /\ UNCHANGED <<store, inflight, mode, auth>>

(* GET /matches/:id *)

GetMatch(param) ==
    LET matchId == parseInt(param)
        result == AggregateRows(matchId)
    IN  /\ Arrives
        /\ IF BadParam(matchId)
           THEN Send(Failure("get", 500,
                             "Failed to fetch match"))
           ELSE IF Len(result) = 0
           THEN Send(Failure("get", 404, "Match not found"))
           ELSE Send(Response("get", 200, "match", result))
        /\ UNCHANGED <<store, inflight, mode, auth>>

(* POST /matches *)

\* fields: location, date, creator, creator.name and creator.contact are
\* all present
CreateMatch(fields, playersNeeded) ==
    LET newMatch == [id |-> nextMatchId, players_needed |-> playersNeeded]
    IN  /\ Arrives
        /\ IF ~fields \/ playersNeeded = 0
           THEN /\ Send(Failure("create", 400,
                                "Missing required fields"))
                /\ UNCHANGED store
           ELSE IF ~PlayersNeededCheck(playersNeeded)
           THEN /\ Send(Failure("create", 500,
                                "Failed to create match"))
                /\ UNCHANGED store
           ELSE /\ nextMatchId <= MaxMatches
                /\ matches' = matches \cup {newMatch}
                /\ nextMatchId' = nextMatchId + 1
                /\ UNCHANGED players
                /\ Send(Response("create", 200, "match",
                                 <<[id |-> newMatch.id,
                                    players_needed |-> newMatch.players_needed,
                                    players |-> <<>>]>>))
        /\ UNCHANGED <<inflight, mode, auth>>

(* POST /matches/:id/join *)

CountOfAllPlayers(id) == Len(players)

\* SELECT m.*, COUNT(p.id) as player_count ... WHERE m.id = $1
PlayerCount(id) == Len(PlayersOf(id))

\* up to the capacity check
Join(param, name, contact) ==
    LET matchId == parseInt(param)
        matchResult == MatchRows(matchId)
    IN  /\ Arrives
        /\ UNCHANGED <<store, mode, auth>>
        /\ IF name = Missing \/ contact = Missing
           THEN /\ Send(Failure("join", 400,
                                "Name and contact required"))
                /\ UNCHANGED inflight
           ELSE IF BadParam(matchId)
           THEN /\ Send(Failure("join", 500,
                                "Failed to join match"))
                /\ UNCHANGED inflight
           ELSE IF matchResult = {}
           THEN /\ Send(Failure("join", 404, "Match not found"))
                /\ UNCHANGED inflight
           ELSE IF \E match \in matchResult :
                       PlayerCount(matchId) >= match.players_needed
           THEN /\ Send(Failure("join", 400, "Match is full!"))
                /\ UNCHANGED inflight
           ELSE /\ Await(Request("join", "existing", matchId, name, contact))
                /\ Silent /\ UNCHANGED left

\* SELECT * FROM players WHERE match_id = $1 AND name = $2
JoinExisting(q) ==
    LET existingPlayer == PlayerRows(q.matchId, q.name)
    IN  /\ q.op = "join" /\ q.pc = "existing"
        /\ UNCHANGED <<arrivals, store, mode, auth>>
        /\ IF Len(existingPlayer) > 0
           THEN /\ Send(Failure("join", 400,
                                "You have already joined this match"))
                /\ inflight' = Resumed(q)
           ELSE /\ inflight' = Resumed(q) (+) SetToBag({[q EXCEPT !.pc = "insert"]})
                /\ Silent /\ UNCHANGED left

\* INSERT INTO players (match_id, name, contact)
JoinInsert(q) ==
    LET row == [match_id |-> q.matchId, name |-> q.name, contact |-> q.contact]
    IN  /\ q.op = "join" /\ q.pc = "insert"
        /\ UNCHANGED <<arrivals, matches, nextMatchId, mode, auth>>
        /\ IF InsertPlayerOk(row)
           THEN /\ players' = InsertRow(players, row)
                /\ inflight' = Resumed(q) (+) SetToBag({[q EXCEPT !.pc = "updated",
                                                               !.rowCount = Counted(1)]})
                /\ Silent /\ UNCHANGED left
           ELSE /\ UNCHANGED players
                /\ inflight' = Resumed(q)
                /\ Send(Failure("join", 500,
                                "Failed to join match"))

\* the aggregate query again; return updatedMatch.rows[0]
JoinUpdated(q) ==
    LET updatedMatch == AggregateRows(q.matchId)
    IN  /\ q.op = "join" /\ q.pc = "updated"
        /\ UNCHANGED <<arrivals, store, mode, auth>>
        /\ inflight' = Resumed(q)
        /\ IF Len(updatedMatch) = 0
           THEN Send(Response("join", 200, "undefined", <<>>))
           ELSE Send(Response("join", 200, "match",
                              updatedMatch))

(* POST /matches/:id/leave *)

KeepsRows(ps, id, name) == ps

\* DELETE FROM players WHERE match_id = $1 AND name = $2: the rows left
DeletePlayerRows(ps, id, name) ==
    SelectSeq(ps, LAMBDA p : ~(p.match_id = id /\ p.name = name))

Leave(param, name) ==
    LET matchId == parseInt(param)
        result == PlayerRows(matchId, name)
    IN  /\ Arrives
        /\ UNCHANGED <<matches, nextMatchId, inflight, mode, auth>>
        /\ IF name = Missing
           THEN /\ Send(Failure("leave", 400, "Name required"))
                /\ UNCHANGED players
           ELSE IF BadParam(matchId)
           THEN /\ Send(Failure("leave", 500,
                                "Failed to leave match"))
                /\ UNCHANGED players
           ELSE /\ players' = DeletePlayerRows(players, matchId, name)
                /\ IF Len(result) = 0
                   THEN Send(Failure("leave", 404,
                                     "Player not found in this match"))
                   ELSE /\ reply' = Response("leave", 200, "message", <<>>)
                        /\ left' = IF serial THEN <<matchId, name>>
                                             ELSE NoLeave

(* DELETE /matches/:id *)

\* DELETE FROM players WHERE match_id = $1
DeleteMatch(param) ==
    LET matchId == parseInt(param)
    IN  /\ Arrives
        /\ UNCHANGED <<matches, nextMatchId, mode, auth>>
        /\ IF BadParam(matchId)
           THEN /\ Send(Failure("delete", 500,
                                "Failed to delete match"))
                /\ UNCHANGED <<players, inflight>>
           ELSE /\ players' = WithoutPlayers(players, matchId)
                /\ Await([Request("delete", "match", matchId, Missing, Missing)
                              EXCEPT !.rowCount = Counted(Len(PlayersOf(matchId)))])
                /\ Silent /\ left' = NoLeave

\* DELETE FROM matches WHERE id = $1 RETURNING *
DeleteMatchRow(q) ==
    LET result == MatchRows(q.matchId)
    IN  /\ q.op = "delete" /\ q.pc = "match"
        /\ matches' = matches \ result
        /\ players' = IF result = {} THEN players
                                     ELSE Cascade(players, q.matchId)
        /\ UNCHANGED <<arrivals, nextMatchId, mode, auth>>
        /\ inflight' = Resumed(q)
        /\ IF result = {}
           THEN Send(Failure("delete", 404,
                             "Match not found"))
           ELSE Send(Response("delete", 200,
                              "message", <<>>))

----------------------------------------------------------------------------
(* The auth endpoints of src/unnamed/part_000 *)

\* bcrypt.hash(password, saltRounds): the salt and the digest of salt and
\* password (one salt stands for the random salts)
Hash(password) == [salt |-> "s", digest |-> <<"s", password>>]

AlwaysValid(password, hash) == TRUE

\* bcrypt.compare(password, hash): the digest of the hash's salt and the
\* password is the hash's digest
Compare(password, hash) == <<hash.salt, password>> = hash.digest

\* SELECT ... FROM users WHERE username = $1
UsersNamed(username) == SelectSeq(users, LAMBDA u : u.username = username)

\* SELECT id, username, name, contact FROM users WHERE id = $1
UsersWithId(id) == SelectSeq(users, LAMBDA u : u.id = id)

\* INSERT INTO users succeeds
InsertUserOk(row) == uniqueUsernames => Len(UsersNamed(row.username)) = 0

\* { id, username, name, contact } of a response
UserObject(u) == [id |-> u.id, username |-> u.username]

\* sessions.get(token): the user id, undefined (0, falsy as well) without
\* an entry
SessionUser(token) ==
    IF \E s \in sessions : s[1] = token
    THEN (CHOOSE s \in sessions : s[1] = token)[2]
    ELSE 0

\* sessions.set(token, userId)
SessionsSet(token, userId) ==
    {s \in sessions : s[1] # token} \cup {<<token, userId>>}

DeletesAll(token) == {}

KeepsToken(token) == sessions

\* sessions.delete(token)
SessionsDelete(token) == {s \in sessions : s[1] # token}

\* generateToken(): a string no earlier call has returned, here the number
\* of the call
generateToken == nextToken

AuthRequest(op, pc, username, password, userId, hash) ==
    [op |-> op, pc |-> pc, username |-> username, password |-> password,
     userId |-> userId, hash |-> hash]

AuthWaiting == BagToSet(authflight)

AuthAwait(q) ==
    /\ BagCardinality(authflight) < MaxInFlight
    /\ authflight' = authflight (+) SetToBag({q})

AuthResumed(q) == authflight (-) SetToBag({q})

\* the requests in progress can each still be given a user id and a token
Room ==
    /\ nextUserId + BagCardinality(authflight) <= MaxUsers
    /\ nextToken + BagCardinality(authflight) <= MaxTokens

\* the requests in progress can each still be given a token
TokenRoom == nextToken + BagCardinality(authflight) <= MaxTokens

(* POST /auth/signup *)

\* fields: name and contact are present.  Up to the check of the username;
\* the handler then awaits bcrypt.hash
SignUp(username, password, fields) ==
    LET existingUser == UsersNamed(username)
    IN  /\ Arrives
        /\ UNCHANGED <<store, inflight, mode, userStore, sessions, nextToken>>
        /\ IF username = Missing \/ password = Missing \/ ~fields
           THEN /\ Send(Failure("signup", 400, "All fields required"))
                /\ UNCHANGED authflight
           ELSE IF Len(existingUser) > 0
           THEN /\ Send(Failure("signup", 400, "Username already taken"))
                /\ UNCHANGED authflight
           ELSE /\ Room
                /\ AuthAwait(AuthRequest("signup", "insert", username,
                                         password, 0, Hash(password)))
                /\ Silent /\ left' = NoLeave

\* INSERT INTO users ... RETURNING; sessions.set(token, user.id)
SignUpInsert(q) ==
    LET user == [id |-> nextUserId, username |-> q.username,
                 password_hash |-> q.hash]
        token == generateToken
    IN  /\ q.op = "signup" /\ q.pc = "insert"
        /\ UNCHANGED <<arrivals, store, inflight, mode, uniqueUsernames>>
        /\ authflight' = AuthResumed(q)
        /\ IF InsertUserOk(user)
           THEN /\ users' = Append(users, user)
                /\ nextUserId' = nextUserId + 1
                /\ sessions' = SessionsSet(token, user.id)
                /\ nextToken' = nextToken + 1
                /\ Send(Response("signup", 200, "session",
                                 <<[token |-> token, user |-> UserObject(user)]>>))
           ELSE /\ UNCHANGED <<users, nextUserId, sessions, nextToken>>
                /\ Send(Failure("signup", 500, "Failed to create account"))

(* POST /auth/login *)

\* up to the lookup of the user; the handler then awaits bcrypt.compare.
\* rows[0] of a SELECT without ORDER BY is any of the rows
Login(username, password) ==
    LET result == UsersNamed(username)
    IN  /\ Arrives
        /\ UNCHANGED <<store, inflight, mode, userStore, sessions, nextToken>>
        /\ IF username = Missing \/ password = Missing
           THEN /\ Send(Failure("login", 400, "Username and password required"))
                /\ UNCHANGED authflight
           ELSE IF Len(result) = 0
           THEN /\ Send(Failure("login", 401, "Invalid username or password"))
                /\ UNCHANGED authflight
           ELSE /\ TokenRoom
                /\ \E i \in 1..Len(result) :
                       AuthAwait(AuthRequest("login", "compare", username, password,
                                             result[i].id, result[i].password_hash))
                /\ Silent /\ left' = NoLeave

\* passwordValid; sessions.set(token, user.id)
LoginCompare(q) ==
    LET passwordValid == Compare(q.password, q.hash)
        token == generateToken
    IN  /\ q.op = "login" /\ q.pc = "compare"
        /\ UNCHANGED <<arrivals, store, inflight, mode, userStore>>
        /\ authflight' = AuthResumed(q)
        /\ IF ~passwordValid
           THEN /\ UNCHANGED <<sessions, nextToken>>
                /\ Send(Failure("login", 401, "Invalid username or password"))
           ELSE /\ sessions' = SessionsSet(token, q.userId)
                /\ nextToken' = nextToken + 1
                /\ Send(Response("login", 200, "session",
                                 <<[token |-> token,
                                    user |-> [id |-> q.userId,
                                              username |-> q.username]]>>))

(* GET /auth/me *)

\* token: the Authorization header without 'Bearer ', NoToken when there
\* is none.  Up to sessions.get in getUserFromToken
Me(token) ==
    LET userId == SessionUser(token)
    IN  /\ Arrives
        /\ UNCHANGED <<store, inflight, mode, userStore, sessions, nextToken>>
        /\ IF token = NoToken
           THEN /\ Send(Failure("me", 401, "Not authenticated"))
                /\ UNCHANGED authflight
           ELSE IF userId = 0
           THEN /\ Send(Failure("me", 401, "Invalid session"))
                /\ UNCHANGED authflight
           ELSE /\ AuthAwait(AuthRequest("me", "select", Missing, Missing,
                                         userId, Hash(Missing)))
                /\ Silent /\ left' = NoLeave

\* SELECT ... FROM users WHERE id = $1; return result.rows[0] || null
MeSelect(q) ==
    LET result == UsersWithId(q.userId)
    IN  /\ q.op = "me" /\ q.pc = "select"
        /\ UNCHANGED <<arrivals, store, inflight, mode, userStore, sessions, nextToken>>
        /\ authflight' = AuthResumed(q)
        /\ IF Len(result) = 0
           THEN Send(Failure("me", 401, "Invalid session"))
           ELSE Send(Response("me", 200, "user", <<UserObject(result[1])>>))

(* POST /auth/logout *)

Logout(token) ==
    /\ Arrives
    /\ UNCHANGED <<store, inflight, mode, userStore, nextToken, authflight>>
    /\ sessions' = IF token # NoToken THEN SessionsDelete(token) ELSE sessions
    /\ Send(Response("logout", 200, "success", <<>>))

----------------------------------------------------------------------------
AuthNext ==
    \/ \E username \in UsernameInputs, password \in PasswordInputs,
          fields \in BOOLEAN : SignUp(username, password, fields)
    \/ \E q \in AuthWaiting : SignUpInsert(q)
    \/ \E username \in UsernameInputs, password \in PasswordInputs :
           Login(username, password)
    \/ \E q \in AuthWaiting : LoginCompare(q)
    \/ \E token \in TokenInputs : Me(token)
    \/ \E q \in AuthWaiting : MeSelect(q)
    \/ \E token \in TokenInputs : Logout(token)

Next ==
    \/ ListMatches
    \/ \E param \in IdParams : GetMatch(param)
    \/ \E fields \in BOOLEAN, playersNeeded \in NeededInputs :
           CreateMatch(fields, playersNeeded)
    \/ \E param \in IdParams, name \in NameInputs, contact \in ContactInputs :
           Join(param, name, contact)
    \/ \E q \in Waiting : JoinExisting(q)
    \/ \E q \in Waiting : JoinInsert(q)
    \/ \E q \in Waiting : JoinUpdated(q)
    \/ \E param \in IdParams, name \in NameInputs : Leave(param, name)
    \/ \E param \in IdParams : DeleteMatch(param)
    \/ \E q \in Waiting : DeleteMatchRow(q)

\* requests arrive at any time and their store calls interleave
Spec == Init /\ [][Next]_vars

\* requests are executed one at a time
SerialSpec == SerialInit /\ [][Next]_vars

\* the auth requests arrive at any time and their awaits interleave
AuthSpec == AuthInit /\ [][AuthNext]_vars

----------------------------------------------------------------------------
(* A store call that fails for a reason of the store (a lost connection,   *)
(* a timeout): pool.query rejects and the handler's catch block answers.   *)

\* the message of each handler's catch block
CatchMessage(op) ==
    CASE op = "list" -> "Failed to fetch matches"
      [] op = "get" -> "Failed to fetch match"
      [] op = "create" -> "Failed to create match"
      [] op = "join" -> "Failed to join match"
      [] op = "leave" -> "Failed to leave match"
      [] op = "delete" -> "Failed to delete match"
      [] op = "signup" -> "Failed to create account"
      [] op = "login" -> "Failed to login"
      [] op = "me" -> "Failed to get user"

Swallowed(op) == Response(op, 200, "undefined", <<>>)

\* catch (err) { reply.code(500); return { error } }
Caught(op) == Failure(op, 500, CatchMessage(op))

\* the handlers whose first store call follows the validation of the request
MatchOps == {"list", "get", "create", "join", "leave", "delete"}

AuthOps == {"signup", "login"}

\* the first store call of a request (with valid fields) to handler op fails
FirstCallFails(op) ==
    /\ Arrives
    /\ Send(Caught(op))
    /\ UNCHANGED <<store, inflight, mode, auth>>

\* the store call request q waits for fails
LaterCallFails(q) ==
    /\ inflight' = Resumed(q)
    /\ Send(Caught(q.op))
    /\ UNCHANGED <<arrivals, store, mode, auth>>

\* the store call auth request q waits for fails (a login waits for
\* bcrypt.compare, which is no store call)
AuthLaterCallFails(q) ==
    /\ q.op # "login"
    /\ authflight' = AuthResumed(q)
    /\ Send(Caught(q.op))
    /\ UNCHANGED <<arrivals, store, inflight, mode, userStore, sessions, nextToken>>

MatchFaults ==
    \/ \E op \in MatchOps : FirstCallFails(op)
    \/ \E q \in Waiting : LaterCallFails(q)

AuthFaults ==
    \/ \E op \in AuthOps : FirstCallFails(op)
    \/ \E q \in AuthWaiting : AuthLaterCallFails(q)

\* every endpoint, store calls that may fail: the clients of a run call the
\* match endpoints, or the auth endpoints of a server whose store holds a
\* match and a player (the two groups of handlers share no state)
AllInit ==
    \/ Init
    \/ /\ matches = {[id |-> 1, players_needed |-> 1]}
       /\ players = <<[match_id |-> 1, name |-> "A", contact |-> "c"]>>
       /\ nextMatchId = 2
       /\ inflight = EmptyBag
       /\ reply = NoReply
       /\ serial = FALSE
       /\ left = NoLeave
       /\ AuthStart
       /\ uniqueUsernames \in BOOLEAN
       /\ traffic = "auth"
       /\ arrivals = Unbounded
       /\ audit = FALSE

AllNext ==
    \/ traffic = "matches" /\ (Next \/ MatchFaults)
    \/ traffic = "auth" /\ (AuthNext \/ AuthFaults)

AllSpec == AllInit /\ [][AllNext]_vars

\* AllInit, the requests keeping count of the rows they change
AuditInit ==
    /\ inflight = EmptyBag
    /\ reply = NoReply
    /\ serial = FALSE
    /\ left = NoLeave
    /\ AuthStart
    /\ arrivals = Unbounded
    /\ audit = TRUE
    /\ \/ /\ matches = {}
          /\ players = <<>>
          /\ nextMatchId = 1
          /\ uniqueUsernames = TRUE
          /\ traffic = "matches"
       \/ /\ matches = {[id |-> 1, players_needed |-> 1]}
          /\ players = <<[match_id |-> 1, name |-> "A", contact |-> "c"]>>
          /\ nextMatchId = 2
          /\ uniqueUsernames \in BOOLEAN
          /\ traffic = "auth"

AuditSpec == AuditInit /\ [][AllNext]_vars

\* AllInit, for clients that send MaxArrivals requests in all
LiveInit ==
    /\ inflight = EmptyBag
    /\ reply = NoReply
    /\ serial = FALSE
    /\ left = NoLeave
    /\ AuthStart
    /\ arrivals = MaxArrivals
    /\ audit = FALSE
    /\ \/ /\ matches = {}
          /\ players = <<>>
          /\ nextMatchId = 1
          /\ uniqueUsernames = TRUE
          /\ traffic = "matches"
       \/ /\ matches = {[id |-> 1, players_needed |-> 1]}
          /\ players = <<[match_id |-> 1, name |-> "A", contact |-> "c"]>>
          /\ nextMatchId = 2
          /\ uniqueUsernames \in BOOLEAN
          /\ traffic = "auth"

\* the call a request waits for (a store call, bcrypt) returns or fails
Returns ==
    \/ \E q \in Waiting :
           \/ JoinExisting(q) \/ JoinInsert(q) \/ JoinUpdated(q)
           \/ DeleteMatchRow(q) \/ LaterCallFails(q)
    \/ \E q \in AuthWaiting :
           \/ SignUpInsert(q) \/ LoginCompare(q) \/ MeSelect(q)
           \/ AuthLaterCallFails(q)

\* every call a request waits for eventually returns or fails
FairSpec == LiveInit /\ [][AllNext]_vars /\ WF_vars(Returns)

----------------------------------------------------------------------------
(* The claims *)

NamesOf(objects) == {objects[i].name : i \in 1..Len(objects)}

DuplicateMember == Failure("join", 400, "You have already joined this match")

\* C1: in every reachable state, whatever the interleaving of the store
\* calls of concurrent requests, no match has more Player rows than its
\* playersNeeded.
C1_CapacityRespected ==
    \A m \in matches : Len(PlayersOf(m.id)) <= m.players_needed

\* C2: in every reachable state no two Player rows have the same
\* (matchId, name) pair.
C2_UniquePlayerPerMatch ==
    \A i, j \in 1..Len(players) :
        i # j => ~(/\ players[i].match_id = players[j].match_id
                   /\ players[i].name = players[j].name)

\* C2: two Join requests for the same (matchId, name) both passed the
\* check for an existing player; one has inserted its row and the other is
\* about to insert.
C2_RacingInsert ==
    \E q1, q2 \in Waiting :
        /\ q1.op = "join" /\ q1.pc = "updated"
        /\ q2.op = "join" /\ q2.pc = "insert"
        /\ q1.matchId = q2.matchId /\ q1.name = q2.name
        /\ Len(PlayerRows(q1.matchId, q1.name)) = 1

\* C3: a Join request that was admitted by the capacity check of an
\* existing match and meets the Player row (matchId, name) of another Join,
\* at its check for an existing player or at its insert, fails with
\* DuplicateMember (400, 'already joined'), whether the two requests ran one
\* after the other or interleaved.
C3_SecondJoinIsDuplicate ==
    [][\A q \in Waiting :
          /\ q.op = "join"
          /\ Len(PlayerRows(q.matchId, q.name)) > 0
          /\ JoinExisting(q) \/ JoinInsert(q)
          => reply' = DuplicateMember]_vars

\* C4: in every reachable state every Player row's matchId is the id of an
\* existing Match.
C4_NoOrphanPlayers ==
    \A i \in 1..Len(players) : players[i].match_id \in MatchIds

\* C4: a DeleteMatch has deleted the players of its match and waits for its
\* second delete, and a Join has inserted a Player row of that match since.
C4_JoinBetweenDeletes ==
    \E q \in Waiting :
        /\ q.op = "delete" /\ q.pc = "match"
        /\ Len(PlayersOf(q.matchId)) > 0

\* C5: when a Join succeeds (the handler returns after its insert and its
\* re-read), the response is the aggregate of the match and its player list
\* contains the name that joined.
C5_JoinedNameInResponse ==
    [][\A q \in Waiting :
          JoinUpdated(q)
          => /\ reply'.code = 200
             /\ reply'.kind = "match"
             /\ Len(reply'.body) = 1
             /\ q.name \in NamesOf(reply'.body[1].players)]_vars

\* C6: requests being executed one at a time, right after a successful
\* Leave of a member of match m, a Join of m by a name that is not in m
\* passes every check and is answered 200 with the aggregate.
C6_JoinAfterLeaveSucceeds ==
    [][left # NoLeave =>
          /\ \A param \in IdParams, name \in Names :
                 /\ parseInt(param) = left[1]
                 /\ Len(PlayerRows(left[1], name)) = 0
                 /\ Join(param, name, "c")
                 => reply' = NoReply
          /\ \A q \in Waiting :
                 q.matchId = left[1] =>
                     /\ JoinExisting(q) /\ Len(PlayerRows(left[1], q.name)) = 0
                            => reply' = NoReply
                     /\ JoinInsert(q) /\ Len(PlayerRows(left[1], q.name)) = 0
                            => reply' = NoReply
                     /\ JoinUpdated(q)
                            => /\ reply'.code = 200 /\ reply'.kind = "match"
                               /\ q.name \in NamesOf(reply'.body[1].players)]_vars

\* C6: playersNeeded = 1; Leave(A) has just succeeded, and the Join(B) that
\* followed it has been admitted and has inserted its row.
C6_JoinedAfterLeave ==
    /\ serial
    /\ left # NoLeave
    /\ left[2] = "A"
    /\ \E m \in matches : m.id = left[1] /\ m.players_needed = 1
    /\ NamesOf(PlayersOf(left[1])) = {"B"}
    /\ \E q \in Waiting :
           q.op = "join" /\ q.pc = "updated" /\ q.matchId = left[1] /\ q.name = "B"

\* C7: requests being executed one at a time, right after Leave(m, n)
\* succeeded (so that an earlier Join(m, n) had succeeded), Join(m, n) passes
\* the capacity check and the check for an existing player, inserts its row
\* and is answered 200 with the aggregate.
C7_RejoinAfterLeaveSucceeds ==
    [][left # NoLeave =>
          /\ \A param \in IdParams :
                 parseInt(param) = left[1] /\ Join(param, left[2], "c")
                 => reply' = NoReply /\ inflight' # inflight
          /\ \A q \in Waiting :
                 q.matchId = left[1] /\ q.name = left[2] =>
                     /\ JoinExisting(q) => reply' = NoReply
                     /\ JoinInsert(q) => reply' = NoReply /\ players' # players
                     /\ JoinUpdated(q) => reply'.code = 200 /\ reply'.kind = "match"]_vars

\* C7: Leave(m, n) has just succeeded and the Join(m, n) that followed it
\* has been admitted and has inserted its row again.
C7_RejoinedAfterLeave ==
    /\ serial
    /\ left # NoLeave
    /\ Len(PlayerRows(left[1], left[2])) = 1
    /\ \E q \in Waiting :
           q.op = "join" /\ q.pc = "updated"
               /\ q.matchId = left[1] /\ q.name = left[2]

\* C8: Leave(matchId, name) fails with NotFound (404) and changes nothing
\* when no Player row (matchId, name) exists; when the row exists it is
\* answered 200, deletes exactly that row and leaves every other Player row
\* and every Match unchanged.
C8_LeaveEffect ==
    [][\A param \in IdParams, name \in Names :
          Leave(param, name) =>
              LET matchId == parseInt(param)
                  others == SelectSeq(players,
                                LAMBDA p : ~(p.match_id = matchId /\ p.name = name))
              IN  /\ matches' = matches /\ nextMatchId' = nextMatchId
                  /\ players' = others
                  /\ IF Len(PlayerRows(matchId, name)) = 0
                     THEN reply'.code = 404 /\ players' = players
                     ELSE reply'.code = 200 /\ Len(players') = Len(players) - 1]_vars

\* C9: DeleteMatch(matchId) for an id that is not an existing match answers
\* NotFound (404) and leaves all Match and Player rows unchanged; for an
\* existing id it removes that match and leaves every other match and the
\* other matches' players unchanged.
C9_DeleteMatchEffect ==
    [][/\ \A param \in IdParams :
              DeleteMatch(param) =>
                  LET matchId == parseInt(param)
                  IN  /\ matches' = matches
                      /\ WithoutPlayers(players', matchId)
                             = WithoutPlayers(players, matchId)
                      /\ matchId \notin MatchIds
                             => players' = players /\ reply' = NoReply
       /\ \A q \in Waiting :
              DeleteMatchRow(q) =>
                  /\ {m \in matches' : m.id # q.matchId}
                         = {m \in matches : m.id # q.matchId}
                  /\ WithoutPlayers(players', q.matchId)
                         = WithoutPlayers(players, q.matchId)
                  /\ IF q.matchId \in MatchIds
                     THEN /\ reply'.code = 200
                          /\ \A m \in matches' : m.id # q.matchId
                     ELSE /\ reply'.code = 404
                          /\ matches' = matches /\ players' = players]_vars

\* C10: GetMatch(matchId) for any id that is not the id of an existing match
\* answers NotFound (404), never ServiceError and never without a payload;
\* Join (with name and contact) for such an id answers NotFound too.
C10_UnknownIdNotFound ==
    [][\A param \in IdParams :
          parseInt(param) \notin MatchIds =>
              /\ GetMatch(param)
                     => reply'.code = 404 /\ reply'.kind = "error"
              /\ \A name \in Names :
                     Join(param, name, "c")
                         => reply'.code = 404 /\ reply'.kind = "error"]_vars

\* C11: in every reachable state every stored Match has playersNeeded
\* between 1 and 20 inclusive, whatever playersNeeded the CreateMatch
\* requests carried.
C11_PlayersNeededInRange ==
    \A m \in matches : m.players_needed >= 1 /\ m.players_needed <= 20

\* C11: a CreateMatch with a playersNeeded out of the range has just been
\* answered, after another CreateMatch had stored a match.
C11_OutOfRangeRefused ==
    /\ matches # {}
    /\ reply = Failure("create", 500, "Failed to create match")

\* C12: CreateMatch is answered ValidationError (400) and creates no match
\* when a field is missing and also when playersNeeded is not a positive
\* integer <= 20.
C12_CreateMatchValidation ==
    [][\A fields \in BOOLEAN, playersNeeded \in NeededInputs :
          /\ ~fields \/ playersNeeded = 0
                 \/ playersNeeded < 1 \/ playersNeeded > 20
          /\ CreateMatch(fields, playersNeeded)
          => reply'.code = 400 /\ matches' = matches]_vars

RowsOf(rows) == {rows[i] : i \in 1..Len(rows)}

\* C13: no step changes the fields of a stored Match: a Match row is only
\* ever inserted (by CreateMatch, under an id not used before) or deleted
\* (by DeleteMatch); Join, Leave, GetMatch, ListMatches and the auth
\* operations leave the Match rows unchanged.  Player rows are only inserted
\* by Join and only removed by Leave and DeleteMatch, and no Player row is
\* changed.
C13_MatchesImmutable ==
    [][/\ \A m \in matches : \A n \in matches' : n.id = m.id => n = m
       /\ \A n \in matches' \ matches : n.id >= nextMatchId
       /\ matches' # matches =>
              \/ \E fields \in BOOLEAN, playersNeeded \in NeededInputs :
                     CreateMatch(fields, playersNeeded)
              \/ \E q \in Waiting : DeleteMatchRow(q)
       /\ RowsOf(players') \ RowsOf(players) # {} =>
              \E q \in Waiting :
                  /\ JoinInsert(q)
                  /\ RowsOf(players) \subseteq RowsOf(players')
                  /\ Len(players') = Len(players) + 1
       /\ RowsOf(players) \ RowsOf(players') # {} =>
              /\ RowsOf(players') \subseteq RowsOf(players)
              /\ \/ \E param \in IdParams, name \in Names : Leave(param, name)
                 \/ \E param \in IdParams : DeleteMatch(param)
                 \/ \E q \in Waiting : DeleteMatchRow(q)]_vars

\* C13: the store holds a Match and a Player, and auth requests have been
\* served: a user has signed up and holds a session.
C13_AuthOverStoredMatch ==
    /\ matches # {} /\ players # <<>>
    /\ users # <<>> /\ sessions # {}

\* C14: a token issued by Login or SignUp is a new one and maps, in
\* sessions, to the user that logged in or signed up; a session entry stays
\* as it is through every step except a Logout with its token; GetCurrentUser
\* with a token that has an entry resolves to the entry's user and is
\* answered 200 with that user; Logout(token) removes the entry, no later
\* step brings a removed token back, and GetCurrentUser with a token without
\* an entry is answered Unauthenticated (401).
C14_TokenResolvesUntilLogout ==
    [][/\ \A q \in AuthWaiting :
              /\ SignUpInsert(q) \/ LoginCompare(q)
              /\ reply'.code = 200
              => LET token == reply'.body[1].token
                     user == reply'.body[1].user
                 IN  /\ \A s \in sessions : s[1] # token
                     /\ \A s \in sessions' : s[1] = token => s[2] = user.id
                     /\ <<token, user.id>> \in sessions'
                     /\ user.username = q.username
                     /\ \E i \in 1..Len(users') :
                            users'[i].id = user.id
                                /\ users'[i].username = q.username
       /\ \A s \in sessions : s \in sessions' \/ Logout(s[1])
       /\ \A s \in sessions' : s[1] < nextToken'
       /\ \A s \in sessions' \ sessions : s[1] >= nextToken
       /\ \A token \in TokenInputs :
              /\ Me(token) =>
                     IF \E s \in sessions : s[1] = token
                     THEN /\ reply' = NoReply
                          /\ \E q \in BagToSet(authflight') :
                                 /\ q.op = "me" /\ <<token, q.userId>> \in sessions
                                 /\ authflight' = authflight (+) SetToBag({q})
                     ELSE reply'.code = 401 /\ authflight' = authflight
              /\ Logout(token) => \A s \in sessions' : s[1] # token
       /\ \A q \in AuthWaiting :
              MeSelect(q) => /\ reply'.code = 200 /\ reply'.kind = "user"
                             /\ reply'.body[1].id = q.userId]_vars

\* C14: tokens have been issued, every one of them has been logged out, and
\* a GetCurrentUser has then been answered 401 'Invalid session'.
C14_LoggedOutTokenRefused ==
    /\ nextToken > 2
    /\ sessions = {}
    /\ reply = Failure("me", 401, "Invalid session")

Conflict == Failure("signup", 400, "Username already taken")

\* C15: no two users share a username, and a SignUp whose username is taken
\* when it checks or when it inserts, as it is when two SignUps of the
\* username run concurrently, is answered Conflict (400) and creates no
\* user and no session.
C15_UsernameTakenIsConflict ==
    [][/\ \A i, j \in 1..Len(users') :
              i # j => users'[i].username # users'[j].username
       /\ \A username \in UsernameInputs \ {Missing},
             password \in PasswordInputs \ {Missing} :
              /\ Len(UsersNamed(username)) > 0
              /\ SignUp(username, password, TRUE)
              => reply' = Conflict /\ UNCHANGED <<users, sessions>>
       /\ \A q \in AuthWaiting :
              /\ Len(UsersNamed(q.username)) > 0
              /\ SignUpInsert(q)
              => reply' = Conflict /\ UNCHANGED <<users, sessions>>]_vars

\* C16: every aggregate of a response of ListMatches, GetMatch, Join or
\* CreateMatch carries a players list, never NULL, which is the empty list
\* when the match has no players; ListMatches on a store without matches
\* answers the empty array.
C16_PlayersListNeverNull ==
    /\ reply.kind \in {"match", "list"} =>
           \A i \in 1..Len(reply.body) :
               /\ reply.body[i].players # JsonNull
               /\ PlayersOf(reply.body[i].id) = <<>>
                      => reply.body[i].players = <<>>
    /\ reply.op = "list" /\ matches = {} =>
           reply.code = 200 /\ reply.kind = "list" /\ reply.body = <<>>

\* C16: ListMatches has answered two aggregates, of a match without players
\* and of a match with a player.
C16_ListWithEmptyMatch ==
    /\ reply.kind = "list" /\ Len(reply.body) = 2
    /\ reply.body[1].players = <<>>
    /\ reply.body[2].players # <<>>

\* the places in table players of the rows of match id, which the table lists
\* by joined_at
RowIndexes(id) == {k \in 1..Len(players) : players[k].match_id = id}

\* C17: the response of ListMatches holds one aggregate for each existing
\* match and no other, the newer match (the greater id) first, and the
\* players of each aggregate are the Player rows of its match, each once,
\* in the order of joined_at.
C17_ListOrdered ==
    reply.op = "list" /\ reply.kind = "list" =>
        /\ {reply.body[i].id : i \in 1..Len(reply.body)} = MatchIds
        /\ \A i, j \in 1..Len(reply.body) :
               i < j => reply.body[i].id > reply.body[j].id
        /\ \A i \in 1..Len(reply.body) :
               LET listed == reply.body[i].players
                   rows == RowIndexes(reply.body[i].id)
               IN  /\ Len(listed) = Cardinality(rows)
                   /\ \A k \in rows :
                          LET place == Cardinality({l \in rows : l <= k})
                          IN  /\ listed[place].name = players[k].name
                              /\ listed[place].contact = players[k].contact

\* C17: ListMatches has answered two matches, one of them with two players.
C17_ListOfTwoMatches ==
    /\ reply.op = "list" /\ Len(reply.body) = 2
    /\ \E i \in 1..2 : Len(reply.body[i].players) = 2

ServiceError(rep) == rep.code = 500 /\ rep.kind = "error" /\ rep.error # ""

\* the :id parameters that are no number
BadIdParams == {param \in IdParams : BadParam(parseInt(param))}

\* C18: whenever a store call of a handler fails, for a reason of the store
\* or because the statement is refused (a parameter that is no integer, a
\* constraint), the request is answered ServiceError (500 with {error}) in
\* that step and is not waiting for any further store call: a first call
\* adds no request to those in progress, a later call removes its request
\* from them.
C18_StoreFailureIsServiceError ==
    [][/\ \A op \in MatchOps \cup AuthOps :
              reply'.op = op /\ FirstCallFails(op) =>
                  /\ ServiceError(reply')
                  /\ inflight' = inflight /\ authflight' = authflight
       /\ \A q \in Waiting :
              \/ LaterCallFails(q)
              \/ /\ ~InsertPlayerOk([match_id |-> q.matchId, name |-> q.name,
                                     contact |-> q.contact])
                 /\ JoinInsert(q)
              => /\ ServiceError(reply')
                 /\ inflight' = inflight (-) SetToBag({q})
                 /\ BagCardinality(inflight') = BagCardinality(inflight) - 1
       /\ \A q \in AuthWaiting :
              \/ AuthLaterCallFails(q)
              \/ ~InsertUserOk([username |-> q.username]) /\ SignUpInsert(q)
              => /\ ServiceError(reply')
                 /\ authflight' = authflight (-) SetToBag({q})
                 /\ BagCardinality(authflight') = BagCardinality(authflight) - 1
       /\ \A param \in BadIdParams :
              \/ reply'.op = "get" /\ GetMatch(param)
              \/ reply'.op \in {"delete", "none"} /\ DeleteMatch(param)
              \/ reply'.op \in {"leave", "none"} /\ Leave(param, "A")
              \/ reply'.op \in {"join", "none"} /\ Join(param, "A", "c")
              => ServiceError(reply') /\ inflight' = inflight
       /\ \A playersNeeded \in NeededInputs \ {0} :
              /\ ~PlayersNeededCheck(playersNeeded)
              /\ reply'.op = "create"
              /\ CreateMatch(TRUE, playersNeeded)
              => ServiceError(reply') /\ inflight' = inflight]_vars

\* C18: the store holds a match and the store call of a ListMatches has
\* failed.
C18_ListMatchesFailed ==
    /\ matches # {}
    /\ traffic = "matches"
    /\ reply = Failure("list", 500, "Failed to fetch matches")

\* the requests that have not been answered yet
InProgress == BagCardinality(inflight) + BagCardinality(authflight)

\* C19: every call a request waits for eventually returning or failing,
\* whenever requests are in progress there comes a state in which every one
\* of them has been answered: no request waits on another one or loops.
C19_EveryRequestAnswered == (InProgress > 0) ~> (InProgress = 0)

\* C19: two requests are in progress at once and the clients send no more.
C19_TwoInProgress == InProgress = 2 /\ arrivals = 0

Full == Failure("join", 400, "Match is full!")

\* C20: requests being executed one at a time, a Join (with name and
\* contact) is answered Full (400) exactly when its match exists and holds
\* at least playersNeeded Player rows at that time, and after every step no
\* match holds more Player rows than its playersNeeded.
C20_SerialFullRule ==
    [][/\ \A param \in IdParams, name \in Names :
              Join(param, name, "c") =>
                  (reply' = Full
                       <=> \E m \in matches :
                               /\ m.id = parseInt(param)
                               /\ Cardinality(RowIndexes(m.id)) >= m.players_needed)
       /\ \A m \in matches' :
              Cardinality({k \in 1..Len(players') : players'[k].match_id = m.id})
                  <= m.players_needed]_vars

\* C20: requests are executed one at a time, a match holds as many players
\* as it needs and a Join of another name has just been answered Full.
C20_FullMatchRefuses ==
    /\ serial
    /\ reply = Full
    /\ \E m \in matches :
           m.players_needed = 2 /\ Cardinality(RowIndexes(m.id)) = 2

MissingFields == Failure("join", 400, "Name and contact required")

NotFound == Failure("join", 404, "Match not found")

\* the failure condition of a Join that applies first, in the order missing
\* name or contact, no match with the id, match full; "none" when none of
\* the three applies
FirstThatApplies(param, name, contact) ==
    IF name = Missing \/ contact = Missing THEN MissingFields
    ELSE IF \A m \in matches : m.id # parseInt(param) THEN NotFound
    ELSE IF \E m \in matches :
                /\ m.id = parseInt(param)
                /\ Cardinality(RowIndexes(m.id)) >= m.players_needed
    THEN Full
    ELSE NoReply

\* C21: a Join is answered with the first of its failure conditions that
\* applies when it reads the match: missing name or contact (400), then no
\* match with the id (404), then match full (400); only a Join to which none
\* of the three applies goes on to look for its name among the players, and
\* is answered DuplicateMember (400) when it finds it.
C21_JoinCheckOrder ==
    [][/\ \A param \in IdParams, name \in NameInputs, contact \in ContactInputs :
              /\ reply'.op \in {"join", "none"}
              /\ Join(param, name, contact)
              => reply' = FirstThatApplies(param, name, contact)
       /\ \A q \in Waiting :
              /\ reply'.op \in {"join", "none"}
              /\ JoinExisting(q)
              => (reply' = DuplicateMember
                      <=> \E k \in RowIndexes(q.matchId) :
                              players[k].name = q.name)]_vars

ErrorCodes == {400, 401, 404, 500}

Stored == <<matches, players, users, sessions>>

\* C22: a step that answers a request with an error status (400, 401, 404,
\* 500) changes no Match, Player, user or session, and the request it
\* answers has changed none in its earlier steps: a match request that is
\* answered with an error has inserted or deleted no row (rowCount 0), and
\* a step that leaves an auth request waiting for its next call changes
\* nothing.
C22_ErrorsChangeNothing ==
    [][/\ reply'.code \in ErrorCodes =>
              /\ UNCHANGED Stored
              /\ \A q \in Waiting : inflight' = Resumed(q) => q.rowCount = 0
       /\ reply' = NoReply /\ authflight' # authflight =>
              UNCHANGED Stored]_vars

\* C23: while a DeleteMatch that has removed Player rows of match m waits
\* for its second statement, no other request observes m as existing: no
\* response of GetMatch, ListMatches or Join carries an aggregate of m, and
\* a Join of m that reads the match for its capacity check finds none (it
\* is answered NotFound, neither admitted to the next check nor answered
\* Full).
C23_DeleteMatchAtomic ==
    [][\A q \in Waiting :
           q.op = "delete" /\ q.rowCount > 0 =>
               /\ reply'.op \in {"get", "list", "join"} /\ reply'.code = 200 =>
                      \A i \in 1..Len(reply'.body) :
                          reply'.body[i].id # q.matchId
               /\ \A param \in IdParams \ BadIdParams, name \in Names :
                      /\ reply'.op \in {"join", "none"}
                      /\ parseInt(param) = q.matchId
                      /\ Join(param, name, "c")
                      => reply' = NotFound]_vars

LoggedOut == Response("logout", 200, "success", <<>>)

\* C24: every Logout is answered success; it leaves every entry of another
\* token in the session store, with its user, and none of the presented
\* token, so that a second Logout of the token changes nothing; a Logout
\* without a token or with a token that has no entry (never issued, or
\* logged out before) changes no session; no Logout changes a user.
C24_LogoutRemovesOnlyItsToken ==
    [][\A token \in TokenInputs :
           reply'.op = "logout" /\ Logout(token) =>
               /\ reply' = LoggedOut
               /\ \A s \in sessions : s[1] # token => s \in sessions'
               /\ \A s \in sessions' : s \in sessions /\ s[1] # token
               /\ token = NoToken \/ SessionUser(token) = 0 =>
                      sessions' = sessions
               /\ UNCHANGED users]_vars

\* C24: the only user holds two tokens, from the SignUp and a Login; a
\* Logout has removed the first and the second still resolves to the user.
C24_OtherTokenOfUserKept ==
    /\ reply = LoggedOut
    /\ Len(users) = 1
    /\ nextToken = 3
    /\ sessions = {<<2, users[1].id>>}

Unauthorized == Failure("login", 401, "Invalid username or password")

\* C25: a Login (with username and password) whose username no user has,
\* or whose password is not the one stored for any user of that username,
\* is answered Unauthorized (401) and adds no session; and whatever the
\* step, every session entry it adds is the <<token, user id>> of a 200
\* response of Login or SignUp, the id being that of a stored user who has
\* the username of the response and, for a Login, the password presented.
C25_SessionsOnlyByAuthentication ==
    [][/\ \A username \in UsernameInputs \ {Missing},
             password \in PasswordInputs \ {Missing} :
              /\ reply'.op = "login"
              /\ Len(UsersNamed(username)) = 0
              /\ Login(username, password)
              => reply' = Unauthorized /\ sessions' = sessions
       /\ \A q \in AuthWaiting :
              /\ reply'.op = "login"
              /\ \A i \in 1..Len(users) :
                     users[i].username = q.username =>
                         users[i].password_hash # Hash(q.password)
              /\ LoginCompare(q)
              => reply' = Unauthorized /\ sessions' = sessions
       /\ \A s \in sessions' \ sessions :
              /\ reply'.op \in {"login", "signup"}
              /\ reply'.code = 200
              /\ reply'.body[1].token = s[1]
              /\ reply'.body[1].user.id = s[2]
              /\ \E i \in 1..Len(users') :
                     /\ users'[i].id = s[2]
                     /\ users'[i].username = reply'.body[1].user.username
                     /\ \A q \in AuthWaiting :
                            LoginCompare(q) =>
                                users'[i].password_hash = Hash(q.password)]_vars

\* C25: every username is that of a user, a session exists, and a Login
\* has just been answered Unauthorized: its password was not the stored one.
C25_WrongPasswordRefused ==
    /\ reply = Unauthorized
    /\ sessions # {}
    /\ \A username \in UsernameInputs \ {Missing} :
           Len(UsersNamed(username)) > 0

====
